---- MODULE Spec2Model ----
(***************************************************************************)
(* Model of sublime_color_scheme_converter.py: the colour resolution       *)
(* functions (try_match_color and its helpers), the key and scope          *)
(* normalisers (convert_name, parse_scope) and the document pipeline       *)
(* (run / parse / parse_rules / parse_settings / parse_color).             *)
(*                                                                         *)
(* A Python string is a sequence of one-character strings, so that the     *)
(* regular expressions, slices and format specifications of the source are *)
(* computed character by character.  A Python float that comes from a      *)
(* decimal literal is the exact rational num/den (den a power of ten).     *)
(***************************************************************************)
EXTENDS FiniteSets, Integers, Sequences, TLC

VARIABLES
    file,     \* the parsed JSON content of the source file (never changes)
    source,   \* the object returned by read_source, mutated by parse
    pc,       \* position of run()

    settings, \* local `settings` of parse (the parsed globals)
    parsed,   \* local `parsed` of parse_rules
    theme,    \* value returned by parse
    err,      \* exception that left run(), or NoErr
    written,  \* TRUE once write_buffer has written the output file
    fn,       \* pure-function harness: name of the function applied
    arg,      \* pure-function harness: its string argument
    res       \* pure-function harness: its result

vars == <<file, source, pc, settings, parsed, theme, err, written, fn, arg, res>>

-----------------------------------------------------------------------------
(* Bounds of the model *)

MaxRules == 2
MaxLen == 3

-----------------------------------------------------------------------------
(* Characters *)

DigitSeq == <<"0", "1", "2", "3", "4", "5", "6", "7", "8", "9">>
HexSeq == DigitSeq \o <<"a", "b", "c", "d", "e", "f">>
Digits == {DigitSeq[i] : i \in 1..10}
Lower == {"a", "b", "c", "d", "e", "f", "g", "h", "i", "j", "k", "l", "m",
          "n", "o", "p", "q", "r", "s", "t", "u", "v", "w", "x", "y", "z"}
Upper == {"A", "B", "C", "D", "E", "F", "G", "H", "I", "J", "K", "L", "M",
          "N", "O", "P", "Q", "R", "S", "T", "U", "V", "W", "X", "Y", "Z"}
LowerSeq == <<"a", "b", "c", "d", "e", "f", "g", "h", "i", "j", "k", "l", "m",
              "n", "o", "p", "q", "r", "s", "t", "u", "v", "w", "x", "y", "z">>
UpperSeq == <<"A", "B", "C", "D", "E", "F", "G", "H", "I", "J", "K", "L", "M",
              "N", "O", "P", "Q", "R", "S", "T", "U", "V", "W", "X", "Y", "Z">>
\* \s of the re module (the ASCII whitespace characters used here)
WS == {" ", "\t"}
\* the character class [0-9,a-z,A-Z] of re_hex and convert_name: the commas
\* inside the brackets are members of the class
CommaClass == Digits \cup Lower \cup Upper \cup {","}
\* the digits int(x, 16) accepts
HexDigits == Digits \cup {"a", "b", "c", "d", "e", "f", "A", "B", "C", "D", "E", "F"}

\* s[i], or a character in no class when i is outside the string
At(s, i) == IF i \in 1..Len(s) THEN s[i] ELSE "<eos>"

\* s[i-1:] of Python (1-based i), clamped
From(s, i) == IF i > Len(s) THEN <<>> ELSE SubSeq(s, i, Len(s))

\* s[:n] of Python
Upto(s, n) == IF n >= Len(s) THEN s ELSE SubSeq(s, 1, n)

\* does the literal p occur in s at position i
StartsAt(s, i, p) == /\ i >= 1
                     /\ i + Len(p) - 1 <= Len(s)
                     /\ SubSeq(s, i, i + Len(p) - 1) = p

\* end (exclusive) of the longest run of characters of class C from i: a
\* greedy C* of the re module
Span(s, i, C) == CHOOSE j \in i..(Len(s) + 1) :
                    /\ \A k \in i..(j - 1) : s[k] \in C
                    /\ (j = Len(s) + 1 \/ s[j] \notin C)

Min(S) == CHOOSE x \in S : \A y \in S : x <= y

\* str.upper() on one character
UpperChar(c) == IF c \in Lower
                THEN UpperSeq[CHOOSE i \in 1..26 : LowerSeq[i] = c]
                ELSE c

-----------------------------------------------------------------------------
(* Numbers *)

DigitVal(c) == CHOOSE i \in 0..9 : DigitSeq[i + 1] = c

HexDigitVal(c) == IF c \in Digits THEN DigitVal(c)
                  ELSE IF c \in Lower
                       THEN 9 + (CHOOSE i \in 1..6 : LowerSeq[i] = c)
                       ELSE 9 + (CHOOSE i \in 1..6 : UpperSeq[i] = c)

RECURSIVE Pow10(_)
Pow10(n) == IF n = 0 THEN 1 ELSE 10 * Pow10(n - 1)

\* int(s) for a string of decimal digits
RECURSIVE DecVal(_)
DecVal(s) == IF Len(s) = 0 THEN 0
             ELSE 10 * DecVal(SubSeq(s, 1, Len(s) - 1)) + DigitVal(s[Len(s)])

\* int(s, 16) for a string of hexadecimal digits
RECURSIVE HexVal(_)
HexVal(s) == IF Len(s) = 0 THEN 0
             ELSE 16 * HexVal(SubSeq(s, 1, Len(s) - 1)) + HexDigitVal(s[Len(s)])

\* str(n) for n >= 0
RECURSIVE Dec(_)
Dec(n) == IF n < 10 THEN <<DigitSeq[n + 1]>>
          ELSE Dec(n \div 10) \o <<DigitSeq[(n % 10) + 1]>>

RECURSIVE HexStr(_)
HexStr(n) == IF n < 16 THEN <<HexSeq[n + 1]>>
             ELSE HexStr(n \div 16) \o <<HexSeq[(n % 16) + 1]>>

\* "{:02x}".format(n): lowercase hex, zero-padded to a MINIMUM width of 2
\* (the sign of a negative number counts in the width)
Format02x(n) == IF n < 0 THEN <<"-">> \o HexStr(-n)
                ELSE IF n < 16 THEN <<"0">> \o HexStr(n)
                ELSE HexStr(n)

\* Python values that reach alpha_to_hex and the `if a:` tests: None, a
\* float (from float(...)), an int (from int(..., 16)) or a str (a regex
\* group).  num/den is the numeric value float(x) would give.
None == [kind |-> "None", num |-> 0, den |-> 1]
PyFloat(d) == [kind |-> "float", num |-> d.num, den |-> d.den]
PyInt(n) == [kind |-> "int", num |-> n, den |-> 1]
PyStr(d) == [kind |-> "str", num |-> d.num, den |-> d.den]

\* bool(x): None is false, a number is false when zero, a non-empty str is
\* true whatever it spells
Truthy(x) == CASE x.kind = "None" -> FALSE
               [] x.kind = "str" -> TRUE
               [] OTHER -> x.num # 0

\* the value of a decimal literal  digits [ "." digits ]  as num/den
DecimalValue(ip, fp) == [num |-> DecVal(ip) * Pow10(Len(fp)) + DecVal(fp),
                         den |-> Pow10(Len(fp))]

\* an optional string (None or a str)
NoStr == [some |-> FALSE, v |-> <<>>]
Some(s) == [some |-> TRUE, v |-> s]

-----------------------------------------------------------------------------
(* Lines 26-36 *)

\* int() truncates towards zero
alpha_to_hex(a) == IF a.num >= 0 THEN Format02x((255 * a.num) \div a.den)
                   ELSE Format02x(-((255 * (-a.num)) \div a.den))

hexa_to_hex(hex, a) == Upto(hex, 7) \o alpha_to_hex(a)

rgb_to_hex(r, g, b, a) ==
    <<"#">> \o Format02x(r) \o Format02x(g) \o Format02x(b)
            \o (IF Truthy(a) THEN alpha_to_hex(a) ELSE <<>>)

-----------------------------------------------------------------------------
(* The compiled patterns, lines 20-24.  Each X_at(s, i) is the match the   *)
(* re module finds when it tries the pattern at position i; X_search is    *)
(* pattern.search(s): the match at the leftmost position that has one.     *)

NoMatch == [ok |-> FALSE]

\* of the matches ms[i] tried at every position i, the leftmost that succeeds
FirstMatch(ms) ==
    IF \E i \in DOMAIN ms : ms[i].ok
    THEN ms[Min({i \in DOMAIN ms : ms[i].ok})]
    ELSE NoMatch

\* re_var = "var\([^\)]+\)" : group() is the text var(...) up to the first ")"
re_var_at(s, i) ==
    IF ~StartsAt(s, i, <<"v", "a", "r", "(">>) THEN NoMatch
    ELSE LET e == Span(s, i + 4, {s[k] : k \in 1..Len(s)} \ {")"})
         IN  IF e > i + 4 /\ At(s, e) = ")"
             THEN [ok |-> TRUE, group |-> SubSeq(s, i, e)]
             ELSE NoMatch

re_var_search(s) == FirstMatch([i \in 1..Len(s) |-> re_var_at(s, i)])

\* re_alpha = "alpha\(((0\.)?[0-9]+)\)" : g1 is float(group(1)); the optional
\* "0." is tried first (eA), and given up when no match follows it (eB)
re_alpha_at(s, i) ==
    IF ~StartsAt(s, i, <<"a", "l", "p", "h", "a", "(">>) THEN NoMatch
    ELSE LET p  == i + 6
             eA == Span(s, p + 2, Digits)
             eB == Span(s, p, Digits)
         IN  IF StartsAt(s, p, <<"0", ".">>) /\ eA > p + 2 /\ At(s, eA) = ")"
             THEN [ok |-> TRUE,
                   g1 |-> DecimalValue(<<"0">>, SubSeq(s, p + 2, eA - 1))]
             ELSE IF eB > p /\ At(s, eB) = ")"
                  THEN [ok |-> TRUE,
                        g1 |-> DecimalValue(SubSeq(s, p, eB - 1), <<>>)]
                  ELSE NoMatch

re_alpha_search(s) == FirstMatch([i \in 1..Len(s) |-> re_alpha_at(s, i)])

\* re_hex = "(#[0-9,a-z,A-Z]{6})([0-9,a-z,A-Z]{2})?"
re_hex_at(s, i) ==
    IF At(s, i) = "#" /\ \A k \in 1..6 : At(s, i + k) \in CommaClass
    THEN [ok |-> TRUE,
          g1 |-> SubSeq(s, i, i + 6),
          g2 |-> IF At(s, i + 7) \in CommaClass /\ At(s, i + 8) \in CommaClass
                 THEN Some(SubSeq(s, i + 7, i + 8))
                 ELSE NoStr]
    ELSE NoMatch

re_hex_search(s) == FirstMatch([i \in 1..Len(s) |-> re_hex_at(s, i)])

\* position after an optional single whitespace character: \s?
SkipWs(s, p) == IF At(s, p) \in WS THEN p + 1 ELSE p

\* the optional tail  (,\s?(\d+\.?\d*))?\)  of re_rgb and re_hsl tried at p;
\* g5 is group(5): None, or the str that spells the alpha
re_tail_at(s, p) ==
    LET q  == SkipWs(s, p + 1)
        ie == Span(s, q, Digits)
        fs == IF At(s, ie) = "." THEN ie + 1 ELSE ie
        fe == Span(s, fs, Digits)
    IN  IF At(s, p) = "," /\ ie > q /\ At(s, fe) = ")"
        THEN [ok |-> TRUE,
              g5 |-> PyStr(DecimalValue(SubSeq(s, q, ie - 1),
                                        SubSeq(s, fs, fe - 1)))]
        ELSE IF At(s, p) = ")" THEN [ok |-> TRUE, g5 |-> None]
             ELSE NoMatch

\* re_rgb = "rgb\((\d+),\s?(\d+),\s?(\d+)(,\s?(\d+\.?\d*))?\)" and
\* re_hsl = "hsl\((\d+),\s?(\d+)%,\s?(\d+)%(,\s?(\d+\.?\d*))?\)" : the two
\* patterns differ in the name and in the "%" after groups 2 and 3 (pct)
re_func_at(s, i, name, pct) ==
    IF ~StartsAt(s, i, name) THEN NoMatch
    ELSE LET w   == IF pct THEN 1 ELSE 0
             s1  == i + 4
             e1  == Span(s, s1, Digits)
             s2  == SkipWs(s, e1 + 1)
             e2  == Span(s, s2, Digits)
             s3  == SkipWs(s, e2 + w + 1)
             e3  == Span(s, s3, Digits)
         IN  IF /\ e1 > s1 /\ At(s, e1) = ","
                /\ e2 > s2 /\ (pct => At(s, e2) = "%") /\ At(s, e2 + w) = ","
                /\ e3 > s3 /\ (pct => At(s, e3) = "%")
                /\ re_tail_at(s, e3 + w).ok
             THEN [ok |-> TRUE,
                   g1 |-> DecVal(SubSeq(s, s1, e1 - 1)),
                   g2 |-> DecVal(SubSeq(s, s2, e2 - 1)),
                   g3 |-> DecVal(SubSeq(s, s3, e3 - 1)),
                   g5 |-> re_tail_at(s, e3 + w).g5]
             ELSE NoMatch

re_rgb_search(s) ==
    FirstMatch([i \in 1..Len(s) |-> re_func_at(s, i, <<"r", "g", "b", "(">>, FALSE)])

re_hsl_search(s) ==
    FirstMatch([i \in 1..Len(s) |-> re_func_at(s, i, <<"h", "s", "l", "(">>, TRUE)])

-----------------------------------------------------------------------------
(* Lines 38-98.  Where a function binds a local name that it reads more     *)
(* than once (match, alpha, hexcode), the rest of its body is an operator   *)
(* that takes the name as a parameter.                                      *)

\* an outcome of a call: a returned value or a raised exception
Return(v) == [raise |-> "none", val |-> v]
Raise(e) == [raise |-> e, val |-> <<>>]

\* lines 40-43, for alpha = re_alpha.search(string)
alpha_or_default(alpha, default) ==
    IF alpha.ok THEN PyFloat(alpha.g1) ELSE default

get_alpha_adjuster(string, default) ==
    alpha_or_default(re_alpha_search(string), default)

\* int(hexcode[7:], 16) raises ValueError unless the slice spells a
\* hexadecimal number; a sign is accepted ("{:02x}" writes one for a
\* negative channel)
IsHexNumber(t) == Len(t) > 0 /\ \A k \in 1..Len(t) : t[k] \in HexDigits

get_alpha_hex(hexcode) ==
    IF Len(hexcode) < 8 THEN Return(None)
    ELSE LET t == From(hexcode, 8)
         IN  IF IsHexNumber(t) THEN Return(PyInt(HexVal(t)))
             ELSE IF t[1] = "-" /\ IsHexNumber(Tail(t))
                  THEN Return(PyInt(-HexVal(Tail(t))))
                  ELSE Raise("ValueError")

\* lines 53-61, for match = re_hex.search(string) and
\* alpha = get_alpha_adjuster(string)
match_hex_result(match, alpha) ==
    IF ~match.ok THEN NoStr
    ELSE IF Truthy(alpha) THEN Some(match.g1 \o alpha_to_hex(alpha))
    ELSE IF match.g2.some THEN Some(match.g1 \o match.g2.v)
    ELSE Some(match.g1)

match_hex(string) ==
    match_hex_result(re_hex_search(string), get_alpha_adjuster(string, None))

\* lines 65-72, for match = re_rgb.search(string)
match_rgb_result(string, match) ==
    IF ~match.ok THEN NoStr
    ELSE Some(rgb_to_hex(match.g1, match.g2, match.g3,
                         get_alpha_adjuster(string, match.g5)))

match_rgb(string) == match_rgb_result(string, re_rgb_search(string))

\* colorsys._v with m1, m2 scaled by 10000 and hue in degrees; the result is
\* the channel value scaled by HlsScale
HlsScale == 600000

hls_v(m1, m2, hue) ==
    LET h == hue % 360
    IN  IF h < 60 THEN 60 * m1 + (m2 - m1) * h
        ELSE IF h < 180 THEN 60 * m2
        ELSE IF h < 240 THEN 60 * m1 + (m2 - m1) * (240 - h)
        ELSE 60 * m1

\* colorsys.hls_to_rgb(h/360, l/100, s/100), channels scaled by HlsScale
hls_to_rgb(h, l, s) ==
    IF s = 0 THEN <<6000 * l, 6000 * l, 6000 * l>>
    ELSE LET m2 == IF l <= 50 THEN l * (100 + s) ELSE 100 * (l + s) - l * s
             m1 == 200 * l - m2
         IN  <<hls_v(m1, m2, h + 120), hls_v(m1, m2, h), hls_v(m1, m2, h + 240)>>

\* 255*int(v): int() truncates the channel v (towards zero) BEFORE the scaling
hsl_channel(v) == IF v >= 0 THEN 255 * (v \div HlsScale)
                  ELSE -(255 * ((-v) \div HlsScale))

\* lines 82-83, for the channels rgb of colorsys.hls_to_rgb
hsl_to_hex(rgb, a) ==
    rgb_to_hex(hsl_channel(rgb[1]), hsl_channel(rgb[2]), hsl_channel(rgb[3]), a)

\* lines 77-84, for match = re_hsl.search(string)
match_hsl_result(string, match) ==
    IF ~match.ok THEN NoStr
    ELSE Some(hsl_to_hex(hls_to_rgb(match.g1, match.g3, match.g2),
                         get_alpha_adjuster(string, match.g5)))

match_hsl(string) == match_hsl_result(string, re_hsl_search(string))

\* `if not hexcode: hexcode = ...` (lines 88-91)
or_else(hexcode, other) == IF hexcode.some THEN hexcode ELSE other

\* lines 94-95, for alpha = get_alpha_adjuster(string, get_alpha_hex(hexcode))
apply_alpha(hexcode, alpha) ==
    IF Truthy(alpha) THEN Return(hexa_to_hex(Upto(hexcode, 7), alpha))
    ELSE Return(hexcode)

\* line 93, for ah = get_alpha_hex(hexcode), which may have raised
resolve_alpha(string, hexcode, ah) ==
    IF ah.raise # "none" THEN Raise(ah.raise)
    ELSE apply_alpha(hexcode, get_alpha_adjuster(string, ah.val))

\* lines 92-98, for the hexcode (or None) that the three matchers gave
resolve_hexcode(string, hexcode) ==
    IF hexcode.some THEN resolve_alpha(string, hexcode.v, get_alpha_hex(hexcode.v))
    ELSE Return(string)

try_match_color(string) ==
    resolve_hexcode(string,
        or_else(or_else(match_hex(string), match_rgb(string)), match_hsl(string)))

-----------------------------------------------------------------------------
(* Lines 100-129 *)

\* re.sub("_([a-z,A-Z,0-9])", upper of group 1, string), scanning from i
RECURSIVE convert_name_from(_, _)
convert_name_from(s, i) ==
    IF i > Len(s) THEN <<>>
    ELSE IF s[i] = "_" /\ At(s, i + 1) \in CommaClass
         THEN <<UpperChar(s[i + 1])>> \o convert_name_from(s, i + 2)
         ELSE <<s[i]>> \o convert_name_from(s, i + 1)

convert_name(string) == convert_name_from(string, 1)

\* re.sub("\s(-|\|)\s", ", ", s), scanning from i
RECURSIVE sub_separators(_, _)
sub_separators(s, i) ==
    IF i > Len(s) THEN <<>>
    ELSE IF At(s, i) \in WS /\ At(s, i + 1) \in {"-", "|"} /\ At(s, i + 2) \in WS
         THEN <<",", " ">> \o sub_separators(s, i + 3)
         ELSE <<s[i]>> \o sub_separators(s, i + 1)

\* re.sub("\s*(\(|\))\s*", " ", s), scanning from i
RECURSIVE sub_parens(_, _)
sub_parens(s, i) ==
    IF i > Len(s) THEN <<>>
    ELSE LET e == Span(s, i, WS)
         IN  IF At(s, e) \in {"(", ")"}
             THEN <<" ">> \o sub_parens(s, Span(s, e + 1, WS))
             ELSE <<s[i]>> \o sub_parens(s, i + 1)

parse_scope(scope) ==
    sub_parens(sub_separators(convert_name(scope), 1), 1)

\* str.replace(old, new): every non-overlapping occurrence, left to right
RECURSIVE Replace(_, _, _, _)
Replace(s, i, old, new) ==
    IF i > Len(s) THEN <<>>
    ELSE IF StartsAt(s, i, old) THEN new \o Replace(s, i + Len(old), old, new)
         ELSE <<s[i]>> \o Replace(s, i + 1, old, new)

-----------------------------------------------------------------------------
(* Python objects of the document.  A str literal is written Chars("..."). *)
(* A dict is the sequence of its items [k, v] in insertion order; keys are *)
(* unique.  An optional value (a key that may be missing, or None) is      *)
(* NoStr or Some(v).                                                       *)

Chars(str) == [i \in 1..Len(str) |-> SubSeq(str, i, i)]

HasKey(d, k) == \E i \in 1..Len(d) : d[i].k = k

\* d[k]
Get(d, k) == d[CHOOSE i \in 1..Len(d) : d[i].k = k].v

\* d.get(k, default)
GetDefault(d, k, default) == IF HasKey(d, k) THEN Get(d, k) ELSE default

\* d[k] = v : an existing key keeps its place, a new key goes last
DictSet(d, k, v) ==
    IF HasKey(d, k)
    THEN [i \in 1..Len(d) |-> IF d[i].k = k THEN [k |-> k, v |-> v] ELSE d[i]]
    ELSE Append(d, [k |-> k, v |-> v])

\* d after d.pop(k, None)
DictDel(d, k) == SelectSeq(d, LAMBDA item : item.k # k)

\* the value d.pop(k, None) returns
DictPop(d, k) == IF HasKey(d, k) THEN Some(Get(d, k)) ELSE NoStr

\* bool(x) for an optional str or an optional dict: None and empty are false
TruthyOpt(x) == x.some /\ Len(x.v) > 0

-----------------------------------------------------------------------------
(* Lines 107-143 *)

\* lines 111-116: the branch of parse_color for a key that is not itself a
\* declared reference; var is re_var.search(key)
parse_color_var(key, variables, var) ==
    IF var.ok /\ ~variables.some
    THEN Raise("AttributeError")   \* None has no attribute get
    ELSE try_match_color(
             IF var.ok
             THEN Replace(key, 1, var.group,
                          GetDefault(variables.v, var.group, var.group))
             ELSE key)

parse_color(key, variables) ==
    IF TruthyOpt(variables) /\ HasKey(variables.v, key)
    THEN try_match_color(Get(variables.v, key))
    ELSE parse_color_var(key, variables, re_var_search(key))

\* the loop of parse_settings from item i on, with `parsed` built so far;
\* parse_settings_item is line 122 for c = parse_color(value, variables)
RECURSIVE parse_settings_from(_, _, _, _)
parse_settings_item(settings_, variables, i, parsed_, c) ==
    IF c.raise # "none" THEN Raise(c.raise)
    ELSE parse_settings_from(settings_, variables, i + 1,
             DictSet(parsed_, convert_name(settings_[i].k), c.val))

parse_settings_from(settings_, variables, i, parsed_) ==
    IF i > Len(settings_) THEN Return(parsed_)
    ELSE parse_settings_item(settings_, variables, i, parsed_,
                             parse_color(settings_[i].v, variables))

parse_settings(settings_, variables) ==
    parse_settings_from(settings_, variables, 1, <<>>)

K_name == Chars("name")
K_scope == Chars("scope")

\* the source rule object after lines 135 and 138: name and scope are popped
popped_rule(rule_) == DictDel(DictDel(rule_, K_name), K_scope)

\* lines 135-137: name = settings.pop("name", None), kept when truthy
rule_name(rule_) ==
    IF TruthyOpt(DictPop(rule_, K_name)) THEN DictPop(rule_, K_name) ELSE NoStr

\* lines 138-140: scope = settings.pop("scope", None), normalised when truthy
rule_scope(rule_) ==
    IF TruthyOpt(DictPop(rule_, K_scope))
    THEN Some(parse_scope(DictPop(rule_, K_scope).v))
    ELSE NoStr

\* lines 134-141 for parsed_ = parse_settings(settings, variables), which
\* may have raised
rule_with(rule_, parsed_) ==
    IF parsed_.raise # "none" THEN Raise(parsed_.raise)
    ELSE Return([name     |-> rule_name(rule_),
                 scope    |-> rule_scope(rule_),
                 settings |-> parsed_.val])

\* one iteration of the loop of parse_rules, lines 134-141: the rule built
\* from one source rule object (or the exception raised)
flatten_rule(rule_, variables) ==
    rule_with(rule_, parse_settings(popped_rule(rule_), variables))

\* lines 152-154: the loop that rewrites the keys of `variables` in place,
\* over the snapshot keys = list(variables), from position i on
RECURSIVE canonicalize_from(_, _, _)
canonicalize_from(variables, keys, i) ==
    IF i > Len(keys) THEN variables
    ELSE canonicalize_from(
             DictSet(DictDel(variables, keys[i]),
                     Chars("var(") \o keys[i] \o Chars(")"),
                     Get(variables, keys[i])),
             keys, i + 1)

canonicalize(variables) ==
    canonicalize_from(variables, [i \in 1..Len(variables) |-> variables[i].k], 1)

-----------------------------------------------------------------------------
(* Source documents.  A document is the dict json.load returns; each of    *)
(* its five top-level keys is present (Some) or missing (NoStr).           *)

Item(k, v) == [k |-> Chars(k), v |-> Chars(v)]

VariablesChoices ==
    { NoStr,                                      \* no "variables" key
      Some(<<>>),                                 \* "variables": {}
      Some(<<Item("accent", "#112233")>>) }

GlobalsChoices ==
    { NoStr,                                      \* no "globals" key
      Some(<<Item("background", "#ffffff")>>),
      Some(<<Item("line_highlight", "var(accent)")>>),
      Some(<<Item("background", "#ffffff"), Item("caret", "var(missing)")>>) }

RuleChoices ==
    { <<Item("name", "Comment"), Item("scope", "comment"),
        Item("foreground", "#888888")>>,
      <<Item("scope", "string - comment"), Item("foreground", "var(accent)")>>,
      <<Item("name", "Missing"), Item("foreground", "var(missing)"),
        Item("font_style", "bold")>> }

RulesChoices ==
    {NoStr} \cup                                  \* no "rules" key
    UNION { {Some(r) : r \in [1..n -> RuleChoices]} : n \in 0..MaxRules }

NameChoices == { [name |-> NoStr, author |-> NoStr],
                 [name |-> Some(Chars("T")), author |-> Some(Chars("A"))] }

Documents ==
    { [name |-> na.name, author |-> na.author, variables |-> v,
       globals |-> g, rules |-> r] :
        na \in NameChoices, v \in VariablesChoices,
        g \in GlobalsChoices, r \in RulesChoices }

NoErr == [type |-> "none", key |-> "none"]

-----------------------------------------------------------------------------
(* run(), lines 177-181, with parse() (lines 145-162) and the loop of      *)
(* parse_rules (lines 131-143) step by step                                *)

fn_idle == /\ fn = "none" /\ arg = <<>> /\ res = Return(<<>>)

Init == /\ file \in Documents
        /\ source = NoStr
        /\ pc = "start"
        /\ settings = <<>>
        /\ parsed = <<>>
        /\ theme = NoStr
        /\ err = NoErr
        /\ written = FALSE
        /\ fn_idle

\* line 178: source = read_source(src)
ReadSource ==
    /\ pc = "start"
    /\ source' = file
    /\ pc' = "parse"
    /\ UNCHANGED <<file, settings, parsed, theme, err, written, fn, arg, res>>

\* the key source["globals"] / source["rules"] raises KeyError for, if any
required_missing(src) ==
    IF ~src.globals.some THEN "globals"
    ELSE IF ~src.rules.some THEN "rules"
    ELSE "none"

\* ParseFields with the rewriting of `variables` (lines 152-154) moved ahead
\* of the lookups of lines 149-150
ParseFieldsAfterRewrite ==
    /\ pc = "parse"
    /\ source' = IF TruthyOpt(source.variables)
                 THEN [source EXCEPT !.variables = Some(canonicalize(@.v))]
                 ELSE source
    /\ IF required_missing(source) # "none"
       THEN /\ err' = [type |-> "KeyError", key |-> required_missing(source)]
            /\ pc' = "raised"
       ELSE /\ pc' = "canon"
            /\ err' = err
    /\ UNCHANGED <<file, settings, parsed, theme, written, fn, arg, res>>

\* lines 146-150: the lookups at the head of parse
ParseFields ==
    /\ pc = "parse"
    /\ IF required_missing(source) # "none"
       THEN /\ err' = [type |-> "KeyError", key |-> required_missing(source)]
            /\ pc' = "raised"
       ELSE /\ pc' = "canon"
            /\ err' = err
    /\ UNCHANGED <<file, source, settings, parsed, theme, written, fn, arg, res>>

\* lines 152-154: the declared names become var(name), in place
ParseVariables ==
    /\ pc = "canon"
    /\ source' = IF TruthyOpt(source.variables)
                 THEN [source EXCEPT !.variables = Some(canonicalize(@.v))]
                 ELSE source
    /\ pc' = "globals"
    /\ UNCHANGED <<file, settings, parsed, theme, err, written, fn, arg, res>>

\* line 156: settings = parse_settings(globals_, variables)
ParseGlobals ==
    /\ pc = "globals"
    /\ \E r \in {parse_settings(source.globals.v, source.variables)} :
           IF r.raise # "none"
           THEN /\ err' = [type |-> r.raise, key |-> "none"]
                /\ pc' = "raised"
                /\ settings' = settings
           ELSE /\ settings' = r.val
                /\ pc' = "rules"
                /\ err' = err
    /\ UNCHANGED <<file, source, parsed, theme, written, fn, arg, res>>

\* lines 133-142: one iteration of the loop of parse_rules
ParseRule ==
    /\ pc = "rules"
    /\ Len(parsed) < Len(source.rules.v)
    /\ \E i \in {Len(parsed) + 1} :
       \E r \in {flatten_rule(source.rules.v[i], source.variables)} :
           /\ source' = [source EXCEPT !.rules.v[i] = popped_rule(@)]
           /\ IF r.raise # "none"
              THEN /\ err' = [type |-> r.raise, key |-> "none"]
                   /\ pc' = "raised"
                   /\ parsed' = parsed
              ELSE /\ parsed' = Append(parsed, r.val)
                   /\ pc' = pc
                   /\ err' = err
    /\ UNCHANGED <<file, settings, theme, written, fn, arg, res>>

Undefined == Chars("undefined")

\* lines 143, 158-162: the loop is over, parse returns the theme
ParseReturn ==
    /\ pc = "rules"
    /\ Len(parsed) = Len(source.rules.v)
    /\ theme' = Some([name     |-> IF source.name.some THEN source.name.v ELSE Undefined,
                      author   |-> IF source.author.some THEN source.author.v ELSE Undefined,
                      settings |-> <<[name |-> NoStr, scope |-> NoStr,
                                      settings |-> settings]>> \o parsed])
    /\ pc' = "convert"
    /\ UNCHANGED <<file, source, settings, parsed, err, written, fn, arg, res>>

\* line 180: output = convert(theme)
Convert ==
    /\ pc = "convert"
    /\ pc' = "write"
    /\ UNCHANGED <<file, source, settings, parsed, theme, err, written, fn, arg, res>>

\* line 181: write_buffer(output, src)
WriteBuffer ==
    /\ pc = "write"
    /\ written' = TRUE
    /\ pc' = "done"
    /\ UNCHANGED <<file, source, settings, parsed, theme, err, fn, arg, res>>

Next == \/ ReadSource
        \/ ParseFields
        \/ ParseVariables
        \/ ParseGlobals
        \/ ParseRule
        \/ ParseReturn
        \/ Convert
        \/ WriteBuffer

Spec == Init /\ [][Next]_vars

-----------------------------------------------------------------------------
(* Arguments for the pure functions *)

HexBases == {Chars("#112233"), Chars("#ffffff"), Chars("#a0b1c2")}

\* "#" and 6 hex digits, alone or followed by every alpha byte 00..ff
CanonicalLiterals ==
    HexBases \cup {b \o Format02x(n) : b \in HexBases, n \in 0..255}

Channels == {0, 1, 16, 127, 255}

\* an alpha as it is spelled, with its value num/den
Alpha(text, num, den) == [text |-> Chars(text), num |-> num, den |-> den]

\* alphas of rgb(r, g, b, a) and hsl(h, s%, l%, a)
AlphaChoices == { Alpha("0", 0, 1), Alpha("1", 1, 1), Alpha("0.0", 0, 10),
                  Alpha("1.0", 10, 10), Alpha("0.2", 2, 10), Alpha("0.5", 5, 10),
                  Alpha("0.25", 25, 100), Alpha("0.999", 999, 1000) }

\* alphas of the modifier alpha(x)
AdjusterChoices == { Alpha("0", 0, 1), Alpha("1", 1, 1), Alpha("0.0", 0, 10),
                     Alpha("0.2", 2, 10), Alpha("0.5", 5, 10),
                     Alpha("0.25", 25, 100), Alpha("0.999", 999, 1000) }

RgbStr(r, g, b) ==
    Chars("rgb(") \o Dec(r) \o Chars(", ") \o Dec(g) \o Chars(", ") \o Dec(b)
                  \o Chars(")")

RgbaStr(r, g, b, a) ==
    Chars("rgb(") \o Dec(r) \o Chars(", ") \o Dec(g) \o Chars(", ") \o Dec(b)
                  \o Chars(", ") \o a \o Chars(")")

Hues == {0, 30, 120, 210, 240, 330}
Saturations == {0, 50, 100}
Lightnesses == {0, 25, 50, 75, 100}

HslStr(h, s, l) ==
    Chars("hsl(") \o Dec(h) \o Chars(", ") \o Dec(s) \o Chars("%, ") \o Dec(l)
                  \o Chars("%)")

\* literals that carry an alpha of their own
EmbeddedAlphaBases == { Chars("#112233cc"), Chars("rgb(1, 2, 3, 0.5)"),
                        Chars("hsl(0, 100%, 50%, 0.5)") }

Adjusted(base, x) == base \o Chars(" alpha(") \o x \o Chars(")")

OtherStrings == { Chars("bold"), Chars("italic"), Chars("bold italic"),
                  Chars("red"), Chars("#fff"), Chars("#12345"),
                  Chars("#gggggg"), Chars("#gggggggg"), Chars("#zzzzzzzz"),
                  Chars("#ffffff,,"), Chars("#1234567"), Chars("bold #ffffff"),
                  Chars("rgb(1, 2)"), Chars("hsl(0, 100, 50)"), <<>> }

ColorInputs ==
    CanonicalLiterals
    \cup {RgbStr(r, g, b) : r \in Channels, g \in Channels, b \in Channels}
    \cup {RgbaStr(r, 0, b, a.text) : r \in Channels, b \in Channels, a \in AlphaChoices}
    \cup {HslStr(h, s, l) : h \in Hues, s \in Saturations, l \in Lightnesses}
    \cup {Adjusted(base, x.text) : base \in EmbeddedAlphaBases, x \in AdjusterChoices}
    \cup OtherStrings

\* every string of at most n characters of the alphabet A
RECURSIVE StringsUpTo(_, _)
StringsUpTo(A, n) ==
    IF n = 0 THEN {<<>>}
    ELSE LET shorter == StringsUpTo(A, n - 1)
         IN  shorter \cup {Append(t, c) : t \in shorter, c \in A}

NameAlphabet == {"a", "_", ",", "1", "."}

NameInputs == StringsUpTo(NameAlphabet, MaxLen)
              \cup {Chars("background_color"), Chars("font_style")}

ScopeTokens == {Chars("foo"), Chars("bar"), Chars("a_b")}
ScopeSeparators == {Chars(" - "), Chars(" | "), Chars(" "), Chars(", ")}

ScopeInputs ==
    ScopeTokens
    \cup {Chars("string - comment"), Chars("foo (bar)")}
    \cup {t \o sep \o u : t \in ScopeTokens, sep \in ScopeSeparators, u \in ScopeTokens}
    \cup {t \o Chars(" (") \o u \o Chars(")") : t \in ScopeTokens, u \in ScopeTokens}
    \cup {Chars("(") \o t \o sep \o u \o Chars(")") \o sep \o t :
             t \in ScopeTokens, sep \in ScopeSeparators, u \in ScopeTokens}

-----------------------------------------------------------------------------
(* The pure functions applied to one argument *)

InitFn == /\ arg \in ColorInputs \cup NameInputs \cup ScopeInputs
          /\ fn = "none"
          /\ res = Return(<<>>)
          /\ file = NoStr
          /\ source = NoStr
          /\ pc = "idle"
          /\ settings = <<>>
          /\ parsed = <<>>
          /\ theme = NoStr
          /\ err = NoErr
          /\ written = FALSE

CallTryMatchColor ==
    /\ fn = "none"
    /\ arg \in ColorInputs
    /\ fn' = "try_match_color"
    /\ res' = try_match_color(arg)
    /\ UNCHANGED <<file, source, pc, settings, parsed, theme, err, written, arg>>

CallConvertName ==
    /\ fn = "none"
    /\ arg \in NameInputs
    /\ fn' = "convert_name"
    /\ res' = Return(convert_name(arg))
    /\ UNCHANGED <<file, source, pc, settings, parsed, theme, err, written, arg>>

CallParseScope ==
    /\ fn = "none"
    /\ arg \in ScopeInputs
    /\ fn' = "parse_scope"
    /\ res' = Return(parse_scope(arg))
    /\ UNCHANGED <<file, source, pc, settings, parsed, theme, err, written, arg>>

NextFn == \/ CallTryMatchColor
          \/ CallConvertName
          \/ CallParseScope

SpecFn == InitFn /\ [][NextFn]_vars

-----------------------------------------------------------------------------
(* Properties of run() and parse()                                         *)

HasRequired(doc) == doc.globals.some /\ doc.rules.some

\* the Variables Table parse works with: the declared names in reference form
VariablesTable(doc) ==
    IF TruthyOpt(doc.variables) THEN Some(canonicalize(doc.variables.v))
    ELSE doc.variables

\* C1: for every source document that has `globals` and `rules` (n entries),
\* parse returns a Theme, and the Theme's settings are n+1 entries: the
\* globals rule first, with neither name nor scope, then the flattened form
\* of source rule i at entry i+1.
C1_ThemeIsGlobalsThenRulesInOrder ==
    HasRequired(file) =>
        /\ pc # "raised"
        /\ theme.some =>
              LET n == Len(file.rules.v)
                  T == theme.v.settings
              IN  /\ Len(T) = n + 1
                  /\ ~T[1].name.some /\ ~T[1].scope.some
                  /\ Return(T[1].settings) =
                         parse_settings(file.globals.v, VariablesTable(file))
                  /\ \A i \in 1..n :
                         Return(T[i + 1]) =
                             flatten_rule(file.rules.v[i], VariablesTable(file))

\* the reference var(missing): no document of the model declares `missing`
UndeclaredRef == Chars("var(missing)")

\* the output settings of every source mapping of the document, paired with
\* the mapping they come from
SettingsPairs(doc, T) ==
    {<<doc.globals.v, T[1].settings>>}
    \cup {<<doc.rules.v[i], T[i + 1].settings>> : i \in 1..Len(doc.rules.v)}

\* C6: whether `variables` is present, empty or absent, the conversion of a
\* document raises no error because of an undeclared reference, and a setting
\* whose value is the undeclared var(x) has the value var(x) in the output.
C6_UndeclaredVariablePassesThrough ==
    HasRequired(file) =>
        /\ err.type = "none"
        /\ theme.some =>
              \A p \in SettingsPairs(file, theme.v.settings) :
                  \A i \in 1..Len(p[1]) :
                      p[1][i].v = UndeclaredRef =>
                          Get(p[2], convert_name(p[1][i].k)) = UndeclaredRef

LacksRequired(doc) == ~doc.globals.some \/ ~doc.rules.some

RaisedKeyError ==
    /\ pc = "raised"
    /\ err.type = "KeyError"
    /\ err.key \in {"globals", "rules"}
    /\ ~file[err.key].some

\* C7: for every source document without `globals` or without `rules`, run
\* never gets past the lookups of parse except into a KeyError that names a
\* missing field; no Theme is returned, no output file is written, and at the
\* failure the source document is as it was read.
C7_MissingRequiredFieldAborts ==
    LacksRequired(file) =>
        /\ pc \in {"start", "parse", "raised"}
        /\ theme = NoStr
        /\ ~written
        /\ pc = "raised" => (RaisedKeyError /\ source = file)

\* a document with declared variables and rules but no globals has failed
C7_Witness ==
    /\ RaisedKeyError
    /\ err.key = "globals"
    /\ TruthyOpt(file.variables)
    /\ file.rules.some /\ Len(file.rules.v) > 0
    /\ source = file

-----------------------------------------------------------------------------
(* Properties of try_match_color                                           *)

called(f) == fn = f

HexColor(r, g, b) == <<"#">> \o Format02x(r) \o Format02x(g) \o Format02x(b)

\* floor(255 * a) as two lowercase hex digits, for a in [0, 1]
AlphaByte(a) == Format02x((255 * a.num) \div a.den)

\* C2: resolving a canonical colour literal ("#" and 6 hex digits, with or
\* without 2 hex digits of alpha) returns the literal unchanged.
C2_CanonicalLiteralIdempotent ==
    (called("try_match_color") /\ arg \in CanonicalLiterals) => res = Return(arg)

\* C3: rgb(r, g, b) resolves to "#" and the three channels in 2 hex digits
\* each, without alpha; rgb(r, g, b, a) resolves to the same 6 digits and
\* exactly the 2 hex digits of floor(255 * a).
C3_RgbResolvesToHex ==
    called("try_match_color") =>
        \A r \in Channels, g \in Channels, b \in Channels :
            /\ arg = RgbStr(r, g, b) => res = Return(HexColor(r, g, b))
            /\ \A a \in AlphaChoices :
                   arg = RgbaStr(r, g, b, a.text) =>
                       res = Return(HexColor(r, g, b) \o AlphaByte(a))

\* a channel v (scaled by HlsScale) brought to 0..255, truncated or rounded
Scaled255(v) == { (255 * v) \div HlsScale,
                  (255 * v + HlsScale \div 2) \div HlsScale }

\* C4: hsl(h, s%, l%) resolves to "#" and the three channels of the standard
\* HSL-to-RGB transform of (h/360, s/100, l/100), each scaled to 0..255 and
\* written in 2 hex digits.
C4_HslResolvesToHex ==
    called("try_match_color") =>
        \A h \in Hues, s \in Saturations, l \in Lightnesses :
            arg = HslStr(h, s, l) =>
                LET rgb == hls_to_rgb(h, l, s)
                IN  \E r \in Scaled255(rgb[1]), g \in Scaled255(rgb[2]),
                       b \in Scaled255(rgb[3]) :
                        res = Return(HexColor(r, g, b))

\* C5: when a value has a literal with an alpha of its own and a modifier
\* alpha(x), the resolved colour ends in the 2 hex digits of floor(255 * x).
C5_AdjusterOverridesEmbeddedAlpha ==
    called("try_match_color") =>
        \A base \in EmbeddedAlphaBases, x \in AdjusterChoices :
            arg = Adjusted(base, x.text) =>
                /\ res.raise = "none"
                /\ Len(res.val) = 9
                /\ From(res.val, 8) = AlphaByte(x)

Contains(s, p) == \E i \in 1..Len(s) : StartsAt(s, i, p)

\* "#" and 6 hexadecimal digits somewhere in s
ContainsHexLiteral(s) ==
    \E i \in 1..Len(s) :
        s[i] = "#" /\ \A k \in 1..6 : At(s, i + k) \in HexDigits

\* neither a hex literal nor an rgb(...) nor an hsl(...) expression, nor a
\* string that holds one
Unrecognized(s) == /\ ~ContainsHexLiteral(s)
                   /\ ~Contains(s, Chars("rgb("))
                   /\ ~Contains(s, Chars("hsl("))

\* C8: for a string that is not a hex literal, an rgb(...) or an hsl(...)
\* expression, try_match_color raises nothing and returns the string.
C8_UnrecognizedSyntaxPassesThrough ==
    (called("try_match_color") /\ Unrecognized(arg)) => res = Return(arg)

-----------------------------------------------------------------------------
(* Properties of parse_scope and convert_name                              *)

\* C9: the result of parse_scope has no parenthesis, has ", " for every
\* " - " and " | ", and has no leading or trailing space the selector did not
\* have; "string - comment" gives "string, comment", "foo (bar)" gives
\* "foo bar".
C9_ScopeNormalized ==
    called("parse_scope") =>
        /\ \A i \in 1..Len(res.val) : res.val[i] \notin {"(", ")"}
        /\ ~Contains(res.val, Chars(" - ")) /\ ~Contains(res.val, Chars(" | "))
        /\ (At(res.val, 1) = " ") => (At(arg, 1) = " ")
        /\ (At(res.val, Len(res.val)) = " ") => (At(arg, Len(arg)) = " ")
        /\ arg = Chars("string - comment") => res.val = Chars("string, comment")
        /\ arg = Chars("foo (bar)") => res.val = Chars("foo bar")

Alphanumeric == Digits \cup Lower \cup Upper

\* medial capitals as the claim describes them: an underscore before a
\* letter or a digit goes and that character is uppercased, everything else
\* stays
RECURSIVE MedialCapitals(_, _)
MedialCapitals(s, i) ==
    IF i > Len(s) THEN <<>>
    ELSE IF s[i] = "_" /\ At(s, i + 1) \in Alphanumeric
         THEN <<UpperChar(s[i + 1])>> \o MedialCapitals(s, i + 2)
         ELSE <<s[i]>> \o MedialCapitals(s, i + 1)

\* C10: convert_name removes each underscore that a letter or a digit
\* follows and uppercases that character; every other character, an
\* underscore before punctuation included, is unchanged.
C10_KeyToMedialCapitals ==
    called("convert_name") => res = Return(MedialCapitals(arg, 1))

====
